---- MODULE Spec2Model ----
(***************************************************************************)
(* Model of tools/make-doc.py: read the version from LIBNO, rewrite the    *)
(* Doxyfile, feed it to doxygen on standard input, then relax the          *)
(* permissions of the output directory tree.                               *)
(*                                                                         *)
(* Text is modelled as a sequence of characters.  The two configuration    *)
(* keys are single tokens of the alphabet.                                 *)
(***************************************************************************)
EXTENDS Integers, Sequences, FiniteSets, TLC

VARIABLES
    LIBNO,             \* content of the file LIBNO
    Doxyfile,          \* content of the file data/Doxyfile
    tree,              \* the directory tree found at the output directory
    pc,                \* position of the script
    entire_file,       \* line 36
    version_str,       \* line 44
    stdout,            \* what print() has written, in order
    stderr,            \* what sys.exit() / the interpreter has written
    lines,             \* the lines the iteration over the file yields
    idx,               \* index of the next line of the loop at line 52
    output_directory,  \* line 49/66: None or Some(value)
    str,               \* line 50/71/74: the configuration given to doxygen
    doxygen_inputs,    \* standard input of every doxygen run, in order
    doxygen_status,    \* exit status of doxygen, -1 before it returned
    walk_top,          \* argument os.walk() got: None before, else Some(path)
    stack,             \* directories os.walk() has still to list
    dirpath,           \* directory of the current os.walk() tuple, 0 if none
    filenames,         \* files of the current tuple not yet handled
    mode,              \* permission bits of every entry of the tree
    chmod_calls,       \* entries os.chmod() was called on, in order
    chmod_failed       \* entries whose os.chmod() raised PermissionError

vars == <<LIBNO, Doxyfile, tree, pc, entire_file, version_str, stdout, stderr,
          lines, idx, output_directory, str, doxygen_inputs,
          doxygen_status, walk_top, stack, dirpath, filenames, mode,
          chmod_calls, chmod_failed>>

----------------------------------------------------------------------------
(* Bounds of the model *)

MaxVerLen == 3      \* longest generated LIBNO content
MaxPieces == 2      \* most line pieces of a generated Doxyfile
MaxNodes == 3       \* most entries of a generated output tree

----------------------------------------------------------------------------
(* Python values *)

None == <<>>
Some(v) == <<v>>

OUTPUT_DIRECTORY == "OUTPUT_DIRECTORY"
PROJECT_NUMBER == "PROJECT_NUMBER"

\* \s of the re module, over the alphabet of the model
IsSpace(c) == c \in {" ", "\t", "\n"}

IsDigitOrDot(c) == c \in {"0", "1", "2", "3", "4", "5", "6", "7", "8", "9", "."}

\* first index >= i of s that holds no white space (Len(s) + 1 if none): \s*
RECURSIVE SkipSpace(_, _)
SkipSpace(s, i) ==
    IF i <= Len(s) /\ IsSpace(s[i]) THEN SkipSpace(s, i + 1) ELSE i

\* first index >= i of s that holds no digit or dot: [0123456789.]*
RECURSIVE SkipNumber(_, _)
SkipNumber(s, i) ==
    IF i <= Len(s) /\ IsDigitOrDot(s[i]) THEN SkipNumber(s, i + 1) ELSE i

\* first index >= i of s that holds a newline (Len(s) + 1 if none): .* without re.S
RECURSIVE SkipDot(_, _)
SkipDot(s, i) ==
    IF i <= Len(s) /\ s[i] # "\n" THEN SkipDot(s, i + 1) ELSE i

\* last index <= i of s that holds no white space (0 if none)
RECURSIVE LastNonSpace(_, _)
LastNonSpace(s, i) ==
    IF i >= 1 /\ IsSpace(s[i]) THEN LastNonSpace(s, i - 1) ELSE i

\* str.strip()
Strip(s) ==
    LET l == SkipSpace(s, 1)
        r == LastNonSpace(s, Len(s))
    IN  IF l > Len(s) THEN <<>> ELSE SubSeq(s, l, r)

\* $ of the re module at position i of s: the end, or just before a final newline
AtEnd(s, i) == i = Len(s) + 1 \/ (i = Len(s) /\ s[i] = "\n")

\* iteration over a text file: the lines, each with its newline
RECURSIVE SplitLines(_)
SplitLines(s) ==
    IF s = <<>> THEN <<>>
    ELSE LET e == SkipDot(s, 1)
         IN  IF e > Len(s) THEN <<s>>
             ELSE <<SubSeq(s, 1, e)>> \o SplitLines(SubSeq(s, e + 1, Len(s)))

RECURSIVE Flatten(_)
Flatten(ss) == IF ss = <<>> THEN <<>> ELSE Head(ss) \o Flatten(Tail(ss))

----------------------------------------------------------------------------
(* Version extraction, lines 39-44 *)

\* index of the last "=" of s at or before i, 0 if none: the greedy (.*=)? with re.S
RECURSIVE LastEquals(_, _)
LastEquals(s, i) ==
    IF i = 0 THEN 0 ELSE IF s[i] = "=" THEN i ELSE LastEquals(s, i - 1)

\* index of the first "=" of s at or after i, 0 if none
RECURSIVE FirstEquals(_, _)
FirstEquals(s, i) ==
    IF i > Len(s) THEN 0 ELSE IF s[i] = "=" THEN i ELSE FirstEquals(s, i + 1)

\* Faulty variant of VersionGroup2: a non-greedy first group, (.*?=)?
VersionGroup2NonGreedy(s) == SubSeq(s, FirstEquals(s, 1) + 1, Len(s))

\* matches.group(2) of line 39
VersionGroup2(s) == SubSeq(s, LastEquals(s, Len(s)) + 1, Len(s))

\* the condition of line 41 (re.match of this pattern never returns None)
VersionNotFound(s) == VersionGroup2(s) = <<>>

----------------------------------------------------------------------------
(* The patterns of the configuration loop, lines 54-69 *)

\* line 54: '^\s*$'
MatchEmpty(line) == SkipSpace(line, 1) > Len(line)

\* line 59: '^\s*#'
MatchComment(line) ==
    LET i == SkipSpace(line, 1) IN i <= Len(line) /\ line[i] = "#"

\* position after '^\s*KEY\s*=\s*', 0 if the line does not start that way
AfterKey(line, key) ==
    LET i == SkipSpace(line, 1)
        j == SkipSpace(line, i + 1)
    IN  IF i <= Len(line) /\ line[i] = key /\ j <= Len(line) /\ line[j] = "="
        THEN SkipSpace(line, j + 1)
        ELSE 0

\* line 64: '^\s*OUTPUT_DIRECTORY\s*=\s*(.*)\s*$'
MatchOutputDirectory(line) ==
    LET k == AfterKey(line, OUTPUT_DIRECTORY)
    IN  k > 0 /\ SkipSpace(line, SkipDot(line, k)) > Len(line)

\* matches.group(1) of line 66: the greedy (.*) takes everything up to the newline
OutputDirectoryGroup1(line) ==
    LET k == AfterKey(line, OUTPUT_DIRECTORY)
    IN  SubSeq(line, k, SkipDot(line, k) - 1)

\* line 69: '^(\s*PROJECT_NUMBER\s*=\s*)([0123456789.]+)(.*)$'
MatchProjectNumber(line) ==
    LET k == AfterKey(line, PROJECT_NUMBER)
    IN  /\ k > 0
        /\ SkipNumber(line, k) > k
        /\ AtEnd(line, SkipDot(line, SkipNumber(line, k)))

ProjectNumberGroup1(line) == SubSeq(line, 1, AfterKey(line, PROJECT_NUMBER) - 1)

ProjectNumberGroup3(line) ==
    LET n == SkipNumber(line, AfterKey(line, PROJECT_NUMBER))
    IN  SubSeq(line, n, SkipDot(line, n) - 1)

\* Faulty variant of ProjectNumberLine: the text after the number is lost
ProjectNumberLineNoRest(line, version) ==
    ProjectNumberGroup1(line) \o version \o <<"\n">>

\* line 71: '{}{}{}\n'.format(matches.group(1), version_str, matches.group(3))
ProjectNumberLine(line, version) ==
    ProjectNumberGroup1(line) \o version \o ProjectNumberGroup3(line) \o <<"\n">>

----------------------------------------------------------------------------
(* Permission bits, module stat *)

S_IRUSR == 256
S_IWUSR == 128
S_IXUSR == 64
S_IRGRP == 32
S_IWGRP == 16
S_IXGRP == 8
S_IROTH == 4
S_IWOTH == 2
S_IXOTH == 1

\* Faulty variant of DirMode: write permission for others as well
DirModeWorldWritable ==
    S_IRUSR + S_IRGRP + S_IROTH + S_IXUSR + S_IXGRP + S_IXOTH
    + S_IWUSR + S_IWGRP + S_IWOTH

\* lines 83-85: the bits are disjoint, so | is +
DirMode ==
    S_IRUSR + S_IRGRP + S_IROTH + S_IXUSR + S_IXGRP + S_IXOTH + S_IWUSR + S_IWGRP

\* lines 93-94
FileMode == S_IRUSR + S_IRGRP + S_IROTH + S_IWUSR + S_IWGRP

HasBit(m, b) == (m \div b) % 2 = 1

----------------------------------------------------------------------------
(* The output tree.  Entry 1 is the directory os.walk() is given; an entry   *)
(* is owned when os.chmod() on it succeeds, and a directory is listable      *)
(* when os.scandir() on it succeeds.                                         *)

Entries(t) == DOMAIN t

ChildDirs(t, d) == {n \in Entries(t) : t[n].parent = d /\ t[n].isdir}

ChildFiles(t, d) == {n \in Entries(t) : t[n].parent = d /\ ~t[n].isdir}

\* a set of entries as a sequence, in the order of the directory listing
RECURSIVE Listing(_)
Listing(S) ==
    IF S = {} THEN <<>>
    ELSE LET n == CHOOSE x \in S : \A y \in S : x <= y
         IN  <<n>> \o Listing(S \ {n})

\* permission bits of the entries before the script runs
InitialMode(t, n) ==
    IF t[n].isdir
    THEN IF t[n].owned /\ ~t[n].listable THEN 0 ELSE S_IRUSR + S_IWUSR + S_IXUSR
    ELSE S_IRUSR + S_IWUSR + S_IXUSR + S_IRGRP + S_IXGRP + S_IROTH + S_IXOTH

WellFormedTree(t) ==
    /\ t[1].parent = 0 /\ t[1].isdir
    /\ \A n \in Entries(t) \ {1} :
          /\ t[n].parent \in 1..(n - 1)
          /\ t[t[n].parent].isdir
    /\ \A n \in Entries(t) : ~t[n].isdir => ~t[n].listable

GenTrees ==
    UNION { { t \in [1..n -> [parent : 0..(n - 1), isdir : BOOLEAN,
                              owned : BOOLEAN, listable : BOOLEAN]] :
                WellFormedTree(t) } : n \in 1..MaxNodes }

Dir(p, o, l) == [parent |-> p, isdir |-> TRUE, owned |-> o, listable |-> l]
File(p, o) == [parent |-> p, isdir |-> FALSE, owned |-> o, listable |-> FALSE]

\* docs/ with html/ of another user holding index.html, a file of another
\* user, and a directory that cannot be listed holding a file
BaseTree ==
    <<Dir(0, TRUE, TRUE), Dir(1, FALSE, TRUE), File(2, TRUE), File(1, FALSE),
      Dir(1, TRUE, FALSE), File(5, TRUE)>>

----------------------------------------------------------------------------
(* Input files *)

VerChars == {"=", " ", "1", "\n"}

GenLibnos == UNION {[1..n -> VerChars] : n \in 0..MaxVerLen}

ExampleLibno == <<"1", ".", "2", "=", "3", ".", "4", ".", "5">>

BaseLibnos ==
    { ExampleLibno,
      <<"V", "=", "2", ".", "3", ".", "4", "\n">>,
      <<"V", "=">>,
      <<"V", "=", " ", "\n">>,
      <<"V", "=", "1", "\n", "#", "\n">> }

LinePieces ==
    { <<"\n">>,
      <<" ", "\t", "\n">>,
      <<"#", "c", "\n">>,
      <<" ", "#", OUTPUT_DIRECTORY, "=", "x", "\n">>,
      <<OUTPUT_DIRECTORY, " ", "=", " ", "b", "/", "d", "\n">>,
      <<" ", OUTPUT_DIRECTORY, "=", "e", " ", "\t", "\n">>,
      <<OUTPUT_DIRECTORY, " ", "=", "\n">>,
      <<PROJECT_NUMBER, " ", "=", " ", "1", ".", "0", ".", "0", " ", "#", " ", "c", "\n">>,
      <<" ", PROJECT_NUMBER, "=", "7", "\n">>,
      <<PROJECT_NUMBER, " ", "=", " ", "x", "\n">>,
      <<"a", " ", "=", " ", "1", "\n">>,
      <<"a">> }

GenDoxyfiles ==
    { Flatten(ps) : ps \in UNION {[1..n -> LinePieces] : n \in 0..MaxPieces} }

BaseDoxyfile ==
    <<"#", "c", "\n",
      "\n",
      OUTPUT_DIRECTORY, " ", "=", " ", "b", "/", "d", "\n",
      PROJECT_NUMBER, " ", "=", " ", "1", ".", "0", ".", "0", " ", "#", " ", "c", "\n",
      "a", " ", "=", " ", "1", "\n">>

----------------------------------------------------------------------------
(* One iteration of the loop of lines 52-74 *)

\* Faulty variant of AppendedText: empty and comment lines are copied
AppendedTextKeepAll(line, version) ==
    IF ~MatchEmpty(line) /\ ~MatchComment(line) /\ MatchProjectNumber(line)
    THEN ProjectNumberLine(line, version)
    ELSE line

\* what the iteration appends to str: nothing after a continue of line 56 or
\* 61, the rewritten line at line 71, the line itself at line 74
AppendedText(line, version) ==
    IF MatchEmpty(line) THEN <<>>
    ELSE IF MatchComment(line) THEN <<>>
    ELSE IF MatchProjectNumber(line) THEN ProjectNumberLine(line, version)
    ELSE line

\* Faulty variant of NextOutputDirectory: only an unset value is assigned
NextOutputDirectoryOnce(line, od) ==
    IF ~MatchEmpty(line) /\ ~MatchComment(line) /\ MatchOutputDirectory(line)
       /\ od = None
    THEN Some(OutputDirectoryGroup1(line))
    ELSE od

\* output_directory after the iteration, lines 64-66
NextOutputDirectory(line, od) ==
    IF MatchEmpty(line) THEN od
    ELSE IF MatchComment(line) THEN od
    ELSE IF MatchOutputDirectory(line) THEN Some(OutputDirectoryGroup1(line))
    ELSE od

----------------------------------------------------------------------------
(* Control flow *)

\* Faulty variant of AfterDoxygen: subprocess.run(..., check=True)
AfterDoxygenChecked(status) == IF status = 0 THEN "adjust" ELSE "crashed"

\* line 76-78: the return code of doxygen is not looked at
AfterDoxygen(status) == "adjust"

\* Faulty variant of AfterPermissionError: the exception is not caught
AfterPermissionErrorRaise(next) == "crashed"

\* lines 86-88 and 95-97: except PermissionError: pass
AfterPermissionError(next) == next

\* exit status of the process: 0 at the end of the script, 1 after
\* sys.exit(<message>) and after an uncaught exception, -1 while it runs
ExitCode ==
    CASE pc = "done" -> 0
      [] pc = "exited" -> 1
      [] pc = "crashed" -> 1
      [] OTHER -> -1

StatusLine == <<"\n", "Adjusting file and directory permissions...">>

----------------------------------------------------------------------------
(* Initial states: one of the three inputs is generated, the others fixed *)

InitFiles ==
    \/ /\ LIBNO \in GenLibnos \cup {ExampleLibno}
       /\ Doxyfile = BaseDoxyfile
       /\ tree = BaseTree
    \/ /\ LIBNO \in BaseLibnos
       /\ Doxyfile \in GenDoxyfiles
       /\ tree = BaseTree
    \/ /\ LIBNO = ExampleLibno
       /\ Doxyfile = BaseDoxyfile
       /\ tree \in GenTrees

Init ==
    /\ InitFiles
    /\ pc = "start"
    /\ entire_file = <<>>
    /\ version_str = <<>>
    /\ stdout = <<>>
    /\ stderr = <<>>
    /\ lines = <<>>
    /\ idx = 1
    /\ output_directory = None
    /\ str = <<>>
    /\ doxygen_inputs = <<>>
    /\ doxygen_status = -1
    /\ walk_top = None
    /\ stack = <<>>
    /\ dirpath = 0
    /\ filenames = <<>>
    /\ mode = [n \in Entries(tree) |-> InitialMode(tree, n)]
    /\ chmod_calls = <<>>
    /\ chmod_failed = {}

inputs == <<LIBNO, Doxyfile, tree>>
version_vars == <<entire_file, version_str>>
config_vars == <<lines, idx, output_directory, str>>
doxygen_vars == <<doxygen_inputs, doxygen_status>>
walk_vars == <<walk_top, stack, dirpath, filenames, mode, chmod_calls, chmod_failed>>

\* an exception nobody catches: traceback on stderr, exit status 1
Uncaught ==
    /\ pc' = "crashed"
    /\ stderr' = Append(stderr, "Traceback")

----------------------------------------------------------------------------
(* Actions *)

\* lines 35-37
ReadLibno ==
    /\ pc = "start"
    /\ entire_file' = LIBNO
    /\ pc' = "match"
    /\ UNCHANGED <<inputs, version_str, stdout, stderr, config_vars,
                   doxygen_vars, walk_vars>>

\* line 35: LIBNO cannot be opened
ReadLibnoFails ==
    /\ pc = "start"
    /\ Uncaught
    /\ UNCHANGED <<inputs, version_vars, stdout, config_vars, doxygen_vars,
                   walk_vars>>

\* lines 39-42: sys.exit("Unable to find version in LIBNO")
ExitNoVersion ==
    /\ pc = "match"
    /\ VersionNotFound(entire_file)
    /\ pc' = "exited"
    /\ stderr' = Append(stderr, "Unable to find version in LIBNO")
    /\ UNCHANGED <<inputs, version_vars, stdout, config_vars, doxygen_vars,
                   walk_vars>>

\* lines 39-45
ExtractVersion ==
    /\ pc = "match"
    /\ ~VersionNotFound(entire_file)
    /\ version_str' = Strip(VersionGroup2(entire_file))
    /\ stdout' = Append(stdout, version_str')
    /\ pc' = "open"
    /\ UNCHANGED <<inputs, entire_file, stderr, config_vars, doxygen_vars,
                   walk_vars>>

\* lines 47-50
OpenConfig ==
    /\ pc = "open"
    /\ lines' = SplitLines(Doxyfile)
    /\ idx' = 1
    /\ output_directory' = None
    /\ str' = <<>>
    /\ pc' = "loop"
    /\ UNCHANGED <<inputs, version_vars, stdout, stderr, doxygen_vars, walk_vars>>

\* line 47: data/Doxyfile cannot be opened
OpenConfigFails ==
    /\ pc = "open"
    /\ Uncaught
    /\ UNCHANGED <<inputs, version_vars, stdout, config_vars, doxygen_vars,
                   walk_vars>>

\* lines 52-74, one line of the file
LoopLine ==
    /\ pc = "loop"
    /\ idx <= Len(lines)
    /\ output_directory' = NextOutputDirectory(lines[idx], output_directory)
    /\ str' = str \o AppendedText(lines[idx], version_str)
    /\ idx' = idx + 1
    /\ UNCHANGED <<inputs, pc, version_vars, stdout, stderr, lines,
                   doxygen_vars, walk_vars>>

\* line 76: doxygen runs and returns with some exit status
RunDoxygen ==
    /\ pc = "loop"
    /\ idx > Len(lines)
    /\ \E status \in {0, 1} :
          /\ doxygen_inputs' = Append(doxygen_inputs, str)
          /\ doxygen_status' = status
          /\ pc' = AfterDoxygen(status)
    /\ UNCHANGED <<inputs, version_vars, stdout, stderr, config_vars, walk_vars>>

\* line 76: doxygen cannot be started
RunDoxygenFails ==
    /\ pc = "loop"
    /\ idx > Len(lines)
    /\ Uncaught
    /\ UNCHANGED <<inputs, version_vars, stdout, config_vars, doxygen_vars,
                   walk_vars>>

\* line 78
PrintAdjusting ==
    /\ pc = "adjust"
    /\ stdout' = Append(stdout, StatusLine)
    /\ pc' = "walk_start"
    /\ UNCHANGED <<inputs, version_vars, stderr, config_vars, doxygen_vars,
                   walk_vars>>

\* line 80: os.walk(None) raises TypeError
WalkNone ==
    /\ pc = "walk_start"
    /\ output_directory = None
    /\ Uncaught
    /\ UNCHANGED <<inputs, version_vars, stdout, config_vars, doxygen_vars,
                   walk_vars>>

\* line 80: os.walk(output_directory) starts; the empty path names no directory
WalkStart ==
    /\ pc = "walk_start"
    /\ output_directory # None
    /\ walk_top' = output_directory
    /\ stack' = IF output_directory[1] = <<>> THEN <<>> ELSE <<1>>
    /\ pc' = "walk"
    /\ UNCHANGED <<inputs, version_vars, stdout, stderr, config_vars,
                   doxygen_vars, dirpath, filenames, mode, chmod_calls,
                   chmod_failed>>

\* line 80: os.walk() lists the next directory and yields it
WalkYield ==
    /\ pc = "walk"
    /\ stack # <<>>
    /\ tree[Head(stack)].listable
    /\ dirpath' = Head(stack)
    /\ filenames' = Listing(ChildFiles(tree, Head(stack)))
    /\ stack' = Listing(ChildDirs(tree, Head(stack))) \o Tail(stack)
    /\ pc' = "chmod_dir"
    /\ UNCHANGED <<inputs, version_vars, stdout, stderr, config_vars,
                   doxygen_vars, walk_top, mode, chmod_calls, chmod_failed>>

\* line 80: os.walk() ignores a directory it cannot list (onerror is None)
WalkSkip ==
    /\ pc = "walk"
    /\ stack # <<>>
    /\ ~tree[Head(stack)].listable
    /\ stack' = Tail(stack)
    /\ UNCHANGED <<inputs, pc, version_vars, stdout, stderr, config_vars,
                   doxygen_vars, walk_top, dirpath, filenames, mode,
                   chmod_calls, chmod_failed>>

\* os.chmod(n, m) inside try ... except PermissionError: pass
Chmod(n, m, next) ==
    /\ chmod_calls' = Append(chmod_calls, n)
    /\ IF tree[n].owned
       THEN /\ mode' = [mode EXCEPT ![n] = m]
            /\ chmod_failed' = chmod_failed
            /\ pc' = next
       ELSE /\ mode' = mode
            /\ chmod_failed' = chmod_failed \cup {n}
            /\ pc' = AfterPermissionError(next)

\* lines 81-88
ChmodDir ==
    /\ pc = "chmod_dir"
    /\ Chmod(dirpath, DirMode, IF filenames = <<>> THEN "walk" ELSE "files")
    /\ UNCHANGED <<inputs, version_vars, stdout, stderr, config_vars,
                   doxygen_vars, walk_top, stack, dirpath, filenames>>

\* lines 90-97, one file
ChmodFile ==
    /\ pc = "files"
    /\ filenames # <<>>
    /\ Chmod(Head(filenames), FileMode,
             IF Tail(filenames) = <<>> THEN "walk" ELSE "files")
    /\ filenames' = Tail(filenames)
    /\ UNCHANGED <<inputs, version_vars, stdout, stderr, config_vars,
                   doxygen_vars, walk_top, stack, dirpath>>

\* the generator is exhausted and the script ends
WalkEnd ==
    /\ pc = "walk"
    /\ stack = <<>>
    /\ pc' = "done"
    /\ UNCHANGED <<inputs, version_vars, stdout, stderr, config_vars,
                   doxygen_vars, walk_vars>>

Next ==
    \/ ReadLibno
    \/ ReadLibnoFails
    \/ ExitNoVersion
    \/ ExtractVersion
    \/ OpenConfig
    \/ OpenConfigFails
    \/ LoopLine
    \/ RunDoxygen
    \/ RunDoxygenFails
    \/ PrintAdjusting
    \/ WalkNone
    \/ WalkStart
    \/ WalkYield
    \/ WalkSkip
    \/ ChmodDir
    \/ ChmodFile
    \/ WalkEnd

Spec == Init /\ [][Next]_vars

\* the interpreter runs the statement of line 78 once subprocess.run() of
\* line 76 has returned
FairSpec == Spec /\ WF_vars(PrintAdjusting)

----------------------------------------------------------------------------
(* Vocabulary of the properties *)

Range(q) == {q[i] : i \in 1..Len(q)}

\* the statement of line 52 has been reached with the file open
ConfigOpened == lines # <<>> \/ pc \in {"loop", "adjust", "walk_start", "walk",
                                        "chmod_dir", "files", "done"}

DoxygenReturned == doxygen_status # -1

\* LIBNO has been read and line 41 has been decided
VersionDecided == pc # "start" /\ pc # "match" /\ (pc = "crashed" => stdout # <<>>)

PermissionPhaseStarted == StatusLine \in Range(stdout)

SkippedLine(line) == MatchEmpty(line) \/ MatchComment(line)

KeptLine(line) == ~SkippedLine(line)

OutputDirectoryLine(line) == KeptLine(line) /\ MatchOutputDirectory(line)

ProjectNumberLineOfFile(line) == KeptLine(line) /\ MatchProjectNumber(line)

\* the text a kept line stands for in the configuration given to doxygen
Rewritten(line) ==
    IF MatchProjectNumber(line)
    THEN ProjectNumberGroup1(line) \o version_str \o ProjectNumberGroup3(line)
         \o <<"\n">>
    ELSE line

\* the text after the last "=" of s (all of s if it has none)
AfterLastEqualsSign(s) ==
    LET eqs == {i \in 1..Len(s) : s[i] = "="}
        last == IF eqs = {} THEN 0 ELSE CHOOSE i \in eqs : \A j \in eqs : j <= i
    IN  SubSeq(s, last + 1, Len(s))

\* the directories os.walk() yields and the files it reports
RECURSIVE Yielded(_, _)
Yielded(t, n) ==
    /\ t[n].isdir
    /\ t[n].listable
    /\ (n = 1 \/ Yielded(t, t[n].parent))

Walked ==
    IF walk_top = None \/ walk_top = Some(<<>>) THEN {}
    ELSE {n \in Entries(tree) :
            IF tree[n].isdir THEN Yielded(tree, n) ELSE Yielded(tree, tree[n].parent)}

RWX == {S_IRUSR, S_IWUSR, S_IXUSR, S_IRGRP, S_IWGRP, S_IXGRP, S_IROTH, S_IWOTH, S_IXOTH}

\* the permission bits m are exactly the bits of the set B
Grants(m, B) == \A b \in RWX : HasBit(m, b) <=> b \in B

----------------------------------------------------------------------------
(* C1 *)

\* C1 (as stated): every empty line and every comment line of the Doxyfile
\* is in the configuration given to doxygen, unchanged and in its place.
C1_PassedThrough ==
    doxygen_inputs # <<>> =>
        doxygen_inputs[1] =
            Flatten([i \in 1..Len(lines) |->
                        IF SkippedLine(lines[i]) THEN lines[i]
                        ELSE Rewritten(lines[i])])

\* C1 (amended): no empty line and no comment line of the Doxyfile is copied
\* into the configuration given to doxygen; it is made of what the other
\* lines stand for, in their order.
C1_Dropped ==
    doxygen_inputs # <<>> =>
        doxygen_inputs[1] =
            Flatten([i \in 1..Len(lines) |->
                        IF SkippedLine(lines[i]) THEN <<>>
                        ELSE Rewritten(lines[i])])

C1_Witness ==
    /\ doxygen_inputs # <<>>
    /\ \E i, j, k \in 1..Len(lines) :
          /\ MatchEmpty(lines[i])
          /\ MatchComment(lines[j])
          /\ KeptLine(lines[k])
          /\ i < k

----------------------------------------------------------------------------
(* C2 *)

\* C2 (as stated): after a walk without a failing chmod every directory of
\* the walk has rwxrwxrwx and every file rw-rw-rw-.
C2_WorldWritable ==
    (pc = "done" /\ chmod_failed = {}) =>
        \A n \in Walked :
            IF tree[n].isdir
            THEN Grants(mode[n], RWX)
            ELSE Grants(mode[n], RWX \ {S_IXUSR, S_IXGRP, S_IXOTH})

\* C2 (amended): after a walk without a failing chmod every directory of the
\* walk has rwxrwxr-x and every file rw-rw-r--: others get no write permission.
C2_GroupWritable ==
    (pc = "done" /\ chmod_failed = {}) =>
        \A n \in Walked :
            IF tree[n].isdir
            THEN Grants(mode[n], RWX \ {S_IWOTH})
            ELSE Grants(mode[n], RWX \ {S_IXUSR, S_IXGRP, S_IXOTH, S_IWOTH})

C2_Witness ==
    /\ pc = "done"
    /\ chmod_failed = {}
    /\ \E d, f \in Walked : d # 1 /\ tree[d].isdir /\ ~tree[f].isdir

----------------------------------------------------------------------------
(* C3 *)

\* C3: when the text after the last "=" of LIBNO is empty once white space
\* is stripped (so also when LIBNO holds white space only), the script stops
\* with "Unable to find version in LIBNO" and a non-zero status, and doxygen
\* never runs with an empty version.
C3_EmptyVersionExits ==
    /\ (Strip(AfterLastEqualsSign(LIBNO)) = <<>> /\ VersionDecided)
          => (/\ pc = "exited"
              /\ ExitCode # 0
              /\ stderr = <<"Unable to find version in LIBNO">>)
    /\ doxygen_inputs # <<>> => version_str # <<>>

----------------------------------------------------------------------------
(* C4 *)

\* C4: when LIBNO holds a "=" and the text after the last one is not white
\* space only, the version is that text without the white space around it,
\* and it is the first thing printed.
C4_LastSegment ==
    (/\ "=" \in Range(LIBNO)
     /\ Strip(AfterLastEqualsSign(LIBNO)) # <<>>
     /\ VersionDecided)
        => /\ pc # "exited"
           /\ version_str = Strip(AfterLastEqualsSign(LIBNO))
           /\ stdout # <<>>
           /\ stdout[1] = Strip(AfterLastEqualsSign(LIBNO))

C4_Witness ==
    /\ LIBNO = <<"1", ".", "2", "=", "3", ".", "4", ".", "5">>
    /\ version_str = <<"3", ".", "4", ".", "5">>
    /\ stdout = <<version_str>>

----------------------------------------------------------------------------
(* C5 *)

OneLine(text) == Len(SplitLines(text)) = 1

\* C5 (as stated): a PROJECT_NUMBER line adds exactly one line to the
\* configuration: its prefix, the version, and what followed the number.
C5_OneLine ==
    [][(pc = "loop" /\ idx <= Len(lines) /\ ProjectNumberLineOfFile(lines[idx]))
         => /\ str' = str \o ProjectNumberGroup1(lines[idx]) \o version_str
                          \o ProjectNumberGroup3(lines[idx]) \o <<"\n">>
            /\ OneLine(SubSeq(str', Len(str) + 1, Len(str')))]_vars

\* C5 (amended): a PROJECT_NUMBER line adds to the configuration its prefix,
\* the version, what followed the number and a newline, and not itself; that
\* is exactly one line when the version holds no newline.
C5_Replaced ==
    [][(pc = "loop" /\ idx <= Len(lines) /\ ProjectNumberLineOfFile(lines[idx]))
         => /\ str' = str \o ProjectNumberGroup1(lines[idx]) \o version_str
                          \o ProjectNumberGroup3(lines[idx]) \o <<"\n">>
            /\ "\n" \notin Range(version_str)
                  => OneLine(SubSeq(str', Len(str) + 1, Len(str')))]_vars

C5_Witness ==
    /\ pc = "done"
    /\ version_str = <<"2", ".", "3", ".", "4">>
    /\ \E i \in 1..Len(lines) :
          lines[i] = <<PROJECT_NUMBER, " ", "=", " ", "1", ".", "0", ".", "0",
                       " ", "#", " ", "c", "\n">>
    /\ <<PROJECT_NUMBER, " ", "=", " ", "2", ".", "3", ".", "4", " ", "#", " ",
         "c", "\n">> \in Range(SplitLines(doxygen_inputs[1]))
    /\ <<PROJECT_NUMBER, " ", "=", " ", "1", ".", "0", ".", "0", " ", "#", " ",
         "c", "\n">> \notin Range(SplitLines(doxygen_inputs[1]))

----------------------------------------------------------------------------
(* C6 *)

\* the OUTPUT_DIRECTORY lines among the first n lines of the file
Declarations(n) == {i \in 1..n : OutputDirectoryLine(lines[i])}

DeclaredValue(i) == OutputDirectoryGroup1(lines[i])

\* C6 (as stated): the value of the first OUTPUT_DIRECTORY line is the one
\* kept, and the directory walked.
C6_FirstWins ==
    /\ Declarations(idx - 1) # {} =>
          output_directory =
              Some(DeclaredValue(CHOOSE i \in Declarations(idx - 1) :
                                    \A j \in Declarations(idx - 1) : i <= j))
    /\ walk_top # None =>
          walk_top =
              Some(DeclaredValue(CHOOSE i \in Declarations(Len(lines)) :
                                    \A j \in Declarations(Len(lines)) : i <= j))

\* C6 (amended): every OUTPUT_DIRECTORY line replaces the value kept, so the
\* value of the last one is the one kept, and the directory walked.
C6_LastWins ==
    /\ output_directory =
          IF Declarations(idx - 1) = {} THEN None
          ELSE Some(DeclaredValue(CHOOSE i \in Declarations(idx - 1) :
                                     \A j \in Declarations(idx - 1) : j <= i))
    /\ walk_top # None =>
          /\ Declarations(Len(lines)) # {}
          /\ walk_top =
                Some(DeclaredValue(CHOOSE i \in Declarations(Len(lines)) :
                                      \A j \in Declarations(Len(lines)) : j <= i))

C6_Witness ==
    /\ pc = "done"
    /\ \E i, j \in Declarations(Len(lines)) :
          /\ i < j
          /\ DeclaredValue(i) # DeclaredValue(j)
          /\ walk_top = Some(DeclaredValue(j))

----------------------------------------------------------------------------
(* C7 *)

\* C7: after an OUTPUT_DIRECTORY line the value kept is the text after the
\* "=" without the white space around it, and the line itself has been added
\* to the configuration.
C7_Trimmed ==
    (pc = "loop" /\ idx > 1 /\ OutputDirectoryLine(lines[idx - 1])) =>
        /\ output_directory = Some(Strip(DeclaredValue(idx - 1)))
        /\ Len(str) >= Len(lines[idx - 1])
        /\ SubSeq(str, Len(str) - Len(lines[idx - 1]) + 1, Len(str)) = lines[idx - 1]

----------------------------------------------------------------------------
(* C8 *)

\* C8: a chmod that fails with PermissionError does not end the script, and
\* at the end chmod has been called once on every directory and file of the
\* walk, the failing ones and all the others.
C8_FailureSwallowed ==
    /\ chmod_failed # {} => pc \in {"walk", "chmod_dir", "files", "done"}
    /\ pc = "done" =>
          /\ Range(chmod_calls) = Walked
          /\ Len(chmod_calls) = Cardinality(Walked)
          /\ ExitCode = 0

C8_Witness ==
    /\ pc = "done"
    /\ \E i, j \in 1..Len(chmod_calls) :
          /\ i < j
          /\ chmod_calls[i] \in chmod_failed
          /\ chmod_calls[j] \notin chmod_failed
          /\ tree[chmod_calls[i]].parent = tree[chmod_calls[j]].parent

----------------------------------------------------------------------------
(* C9 *)

BeforeDoxygen == pc \in {"start", "match", "open", "loop", "exited"}

AfterDoxygenReturned ==
    pc \in {"adjust", "walk_start", "walk", "chmod_dir", "files", "done"}

\* C9: doxygen is never run twice; a run that gets past line 76 has run it
\* once, on the rewriting of all the lines of the file; chmod is not called
\* before doxygen has returned; and once doxygen has returned, with whatever
\* status, the line announcing the permission phase is printed.
C9_Ordering ==
    /\ [](/\ Len(doxygen_inputs) <= 1
          /\ BeforeDoxygen => doxygen_inputs = <<>> /\ ~DoxygenReturned
          /\ AfterDoxygenReturned =>
                /\ Len(doxygen_inputs) = 1
                /\ DoxygenReturned
                /\ idx = Len(lines) + 1
                /\ doxygen_inputs[1] =
                      Flatten([i \in 1..Len(lines) |->
                                  IF KeptLine(lines[i]) THEN Rewritten(lines[i])
                                  ELSE <<>>])
          /\ chmod_calls # <<>> => DoxygenReturned /\ PermissionPhaseStarted)
    /\ \A status \in {0, 1} :
          (doxygen_status = status) ~> PermissionPhaseStarted

C9_Witness ==
    /\ pc = "done"
    /\ doxygen_status = 1
    /\ chmod_calls # <<>>
    /\ Len(lines) > 1

----------------------------------------------------------------------------
(* C10 *)

\* C10: when no version can be extracted from LIBNO (nothing but white space
\* follows its last "="), the script ends with a non-zero status having
\* printed nothing, opened no Doxyfile, run no doxygen and called no chmod;
\* and a script that ends with status 0 has printed the version, read the
\* Doxyfile, run doxygen and gone through the permission phase.
C10_ExitsAtOnce ==
    /\ (Strip(AfterLastEqualsSign(LIBNO)) = <<>> /\ VersionDecided)
          => /\ ExitCode = 1
             /\ stdout = <<>>
             /\ ~ConfigOpened
             /\ doxygen_inputs = <<>>
             /\ chmod_calls = <<>>
    /\ ExitCode = 0
          => /\ stdout = <<version_str, StatusLine>>
             /\ idx = Len(lines) + 1
             /\ Len(doxygen_inputs) = 1
             /\ walk_top # None

====
